---- MODULE Spec2Model ----
\* The Hoot blog back end: src/controllers/hoots.js (the eight routes) over
\* src/models/hoot.js (the Mongoose schema).  The state is the hoots
\* collection, the requests held between the two awaits of their handler,
\* and the last response sent.  Five of the eight handlers await the store
\* twice (findById, then a write), and Express runs other requests between
\* the two: such a handler is an action that runs it whole and two actions
\* that run it up to and from its write, with any other request in between.
\* With one request held while others run whole, every interleaving of two
\* requests is covered (two loads in a row commute).
EXTENDS Integers, Sequences, FiniteSets, TLC

\* ------------------------------------------------------------- bounds
\* Users, hoots and comments ever created, requests held between their
\* awaits at a time, the highest __v of a document.
MaxUsers == 2
MaxHoots == 2
MaxComments == 2
MaxRequests == 1
MaxVersion == 3

Users == 1..MaxUsers
HootIds == 1..MaxHoots
CommentIds == 1..MaxComments
Requests == 1..MaxRequests

\* ------------------------------------------------------------- values
NoStr == "<absent>"
EmptyStr == ""
NoId == -1
NoTime == -1
Null == 0
PastTime == 0

Texts == {"a", "b"}
Categories == {"News", "Sports", "Games", "Movies", "Music", "Television"}
BadCategory == "Bogus"

\* A comment as a request body carries it: _id, text and author may each
\* be absent.
BodyComment == [id : {NoId} \cup CommentIds, text : Texts \cup {NoStr},
                author : {NoId} \cup Users]

\* Bodies of POST /:hootId/comments.  The handler overwrites author.
CommentBodies == {b \in BodyComment : b.author = NoId}

NoBody ==
    [id |-> NoId, title |-> NoStr, text |-> NoStr, category |-> NoStr,
     author |-> NoId, createdAt |-> NoTime, hasComments |-> FALSE,
     comments |-> <<>>]

PlainBody == [NoBody EXCEPT !.title = "A", !.text = "a", !.category = "News"]

\* -------------------------------------------------------------- state
VARIABLES
    hoots,          \* the collection: _id -> document
    now,            \* the clock when the last hoot was stored
    nextHootId,     \* the ordinal of the next hoot created
    nextCommentId,  \* the ordinal of the next comment created
    lastCreated,    \* _id of the hoot the last successful POST / stored
    res,            \* the last response sent
    pending         \* the requests between their two awaits

vars == <<hoots, now, nextHootId, nextCommentId, lastCreated, res, pending>>

\* A response: the route, the status, the kind of the error sent with a
\* 500, the _ids of the hoots in the body (none for null), and for a
\* comment POST whether it saved onto the comments it loaded and one more.
Response(op, status, err, ids, raced) ==
    [op |-> op, status |-> status, err |-> err, ids |-> ids, raced |-> raced]

Ok(op, status, ids) == Response(op, status, "none", ids, FALSE)
Fail(op, err) == Response(op, 500, err, <<>>, FALSE)

\* A request held between its awaits: the route, the hoot it loaded, the
\* comment it names (PUT and DELETE comment), and of the loaded document
\* the index and text of that comment and __v (PUT comment) or the
\* comments (POST comment).
IdleRequest ==
    [op |-> "idle", hootId |-> NoId, commentId |-> NoId, idx |-> 0,
     v |-> 0, text |-> NoStr, loaded |-> <<>>]

Loaded(op, h) == [IdleRequest EXCEPT !.op = op, !.hootId = h]

Init ==
    /\ hoots = [h \in {} |-> <<>>]
    /\ now = 1
    /\ nextHootId = 1
    /\ nextCommentId = 1
    /\ lastCreated = NoId
    /\ res = Ok("none", 0, <<>>)
    /\ pending = [r \in Requests |-> IdleRequest]

\* ------------------------------------------------- the schema (hoot.js)
\* A null element of the comments array, which MongoDB creates when a $set
\* names an index past the end.
NullComment == [id |-> Null, text |-> NoStr, author |-> Null]

\* commentSchema: text is required.  A null element is not validated.
ValidComment(c) == c = NullComment \/ c.text \notin {NoStr, EmptyStr}

\* hootSchema: title and text required, category required and in the enum,
\* every comment valid.
ValidHoot(doc) ==
    /\ doc.title \notin {NoStr, EmptyStr}
    /\ doc.text \notin {NoStr, EmptyStr}
    /\ doc.category \in Categories
    /\ \A i \in 1..Len(doc.comments) : ValidComment(doc.comments[i])

\* Casting an array of body comments to sub-documents: a comment without
\* _id gets a new one, an absent author is stored as null.
CastComments(cs, first) ==
    [i \in 1..Len(cs) |->
        [id |-> IF cs[i].id = NoId THEN first + i - 1 ELSE cs[i].id,
         text |-> cs[i].text,
         author |-> IF cs[i].author = NoId THEN Null ELSE cs[i].author]]

\* new Hoot(body): every schema path of the body is taken, createdAt
\* included; the timestamps plugin sets createdAt only when it is unset;
\* __v starts at 0.
NewHoot(body, first, clock) ==
    [title |-> body.title, text |-> body.text, category |-> body.category,
     author |-> body.author,
     comments |-> CastComments(body.comments, first),
     createdAt |-> IF body.createdAt = NoTime THEN clock ELSE body.createdAt,
     v |-> 0]

CommentsIn(body) == Len(body.comments)

\* The _ids a body chooses were handed out before.
KnownIds(body) ==
    /\ body.id # NoId => body.id < nextHootId
    /\ \A i \in 1..Len(body.comments) :
          body.comments[i].id # NoId => body.comments[i].id < nextCommentId

FindById(h) == IF h \in DOMAIN hoots THEN <<hoots[h]>> ELSE <<>>

\* findByIdAndUpdate(h, body): a $set of every submitted schema path, with
\* no validation; createdAt is immutable and dropped from the update, __v
\* is left as it is.
ApplyUpdate(doc, body, first) ==
    [doc EXCEPT
        !.title = IF body.title = NoStr THEN @ ELSE body.title,
        !.text = IF body.text = NoStr THEN @ ELSE body.text,
        !.category = IF body.category = NoStr THEN @ ELSE body.category,
        !.author = IF body.author = NoId THEN @ ELSE body.author,
        !.comments = IF body.hasComments THEN CastComments(body.comments, first) ELSE @]

\* Variant of SavePush: the loaded array, with the new element, written
\* back whole.
SavePush_Overwrite(stored, loaded, c) == Append(loaded, c)

\* What hoot.save() stores after hoot.comments.push(c) on the loaded array:
\* the array methods record the push, and save() sends it as an atomic
\* $push of the new element onto the array stored at that moment.
SavePush(stored, loaded, c) == Append(stored, c)

\* Hoot.findByIdAndDelete(h): the collection without that document.
RemoveHoot(db, h) == [x \in DOMAIN db \ {h} |-> db[x]]

\* What hoot.save() stores after comment.text = t on the sub-document that
\* was at index i of the loaded array: a $set of comments.<i-1>.text on the
\* array stored at that moment; past its end the array is padded.
SetText(cs, i, t) ==
    IF i <= Len(cs) THEN [cs EXCEPT ![i].text = t]
    ELSE [k \in 1..i |->
            IF k <= Len(cs) THEN cs[k]
            ELSE IF k < i THEN NullComment
            ELSE [NullComment EXCEPT !.text = t]]

\* comments.id(c): index of the first sub-document with that _id, 0 if none.
CommentIndex(cs, c) ==
    IF \E i \in 1..Len(cs) : cs[i].id = c
    THEN CHOOSE i \in 1..Len(cs) : cs[i].id = c /\ \A j \in 1..(i - 1) : cs[j].id # c
    ELSE 0

\* comments.remove({_id: c}) and save(): a $pull of every sub-document with
\* that _id from the array stored at that moment.
PullComment(cs, c) == SelectSeq(cs, LAMBDA x : x.id # c)

\* Sequences of all stored hoot ids in an order sort({createdAt: "desc"})
\* can return; documents with equal createdAt come in any order.
RECURSIVE Perms(_)
Perms(S) ==
    IF S = {} THEN {<<>>}
    ELSE UNION {{<<x>> \o p : p \in Perms(S \ {x})} : x \in S}

SortedDesc(db, p) ==
    \A i \in 1..Len(p) : \A j \in 1..Len(p) :
        i < j => db[p[i]].createdAt >= db[p[j]].createdAt

FindSorted(db) == {p \in Perms(DOMAIN db) : SortedDesc(db, p)}

\* ------------------------------------------- the handlers (hoots.js)
\* Each handler is an action that runs it from the request to the response
\* with no other request in between.  A handler that awaits the store twice
\* has two more actions: <Handler>Load holds a request that passed its first
\* await in `pending`, <Handler>Save runs it from its second await on.
\* Caller and body of a held request, which no other request reads, are
\* drawn where the handler uses them.
Free(r) == pending[r].op = "idle"

Suspend(r, entry) == pending' = [pending EXCEPT ![r] = entry]

\* The request that answers leaves the held ones (NoRequest: it was not
\* held).
Release(r) ==
    pending' = [q \in Requests |-> IF q = r THEN IdleRequest ELSE pending[q]]

NoRequest == 0

\* router.post("/"): one await (Hoot.create), dt ticks of the clock after
\* the last hoot was stored (none: within the same millisecond); time is
\* counted from the first one.  A chosen _id that is stored is a duplicate
\* key.
CreateHoot(u, b, dt) ==
    /\ nextHootId <= MaxHoots
    /\ nextCommentId + CommentsIn(b) - 1 <= MaxComments
    /\ KnownIds(b)
    /\ LET body == [b EXCEPT !.author = u]
           clock == IF nextHootId = 1 THEN now ELSE now + dt
           doc == NewHoot(body, nextCommentId, clock)
           id == IF b.id = NoId THEN nextHootId ELSE b.id
       IN IF ~ValidHoot(doc)
          THEN /\ res' = Fail("CreateHoot", "ValidationError")
               /\ UNCHANGED <<hoots, now, nextHootId, nextCommentId, lastCreated>>
          ELSE IF id \in DOMAIN hoots
          THEN /\ res' = Fail("CreateHoot", "MongoServerError")
               /\ UNCHANGED <<hoots, now, nextHootId, nextCommentId, lastCreated>>
          ELSE /\ hoots' = (id :> doc) @@ hoots
               /\ lastCreated' = id
               /\ now' = clock
               /\ nextHootId' = nextHootId + 1
               /\ nextCommentId' = nextCommentId + CommentsIn(b)
               /\ res' = Ok("CreateHoot", 201, <<id>>)
    /\ UNCHANGED pending

\* router.get("/"): one await.
ListHoots ==
    /\ \E p \in FindSorted(hoots) : res' = Ok("ListHoots", 200, p)
    /\ UNCHANGED <<hoots, now, nextHootId, nextCommentId, lastCreated, pending>>

\* router.get("/:hootId"): one await; null is answered with 200 too.
GetHoot(h) ==
    /\ res' = Ok("GetHoot", 200, IF h \in DOMAIN hoots THEN <<h>> ELSE <<>>)
    /\ UNCHANGED <<hoots, now, nextHootId, nextCommentId, lastCreated, pending>>

\* The permission check of PUT and DELETE /:hootId on the loaded document:
\* "error" when findById gave null or the stored author is null (a
\* TypeError, answered 500), "forbidden" when the author is another user.
Permission(u, h) ==
    IF FindById(h) = <<>> THEN "error"
    ELSE IF hoots[h].author = Null THEN "error"
    ELSE IF hoots[h].author # u THEN "forbidden"
    ELSE "ok"

\* The response of PUT and DELETE /:hootId to a request that fails the check.
Refuse(op, u, h) ==
    /\ res' = IF Permission(u, h) = "error" THEN Fail(op, "TypeError")
              ELSE Ok(op, 403, <<>>)
    /\ UNCHANGED <<hoots, now, nextHootId, nextCommentId, lastCreated, pending>>

\* PUT /:hootId from findByIdAndUpdate on, for request r (NoRequest: not
\* held).  When the document is gone the null result makes the handler throw.
UpdateHootWrite(r, h, b) ==
    /\ nextCommentId + CommentsIn(b) - 1 <= MaxComments
    /\ KnownIds(b)
    /\ IF h \notin DOMAIN hoots
       THEN /\ res' = Fail("UpdateHoot", "TypeError")
            /\ UNCHANGED <<hoots, nextCommentId>>
       ELSE /\ hoots' = [hoots EXCEPT ![h] = ApplyUpdate(@, b, nextCommentId)]
            /\ nextCommentId' = nextCommentId + CommentsIn(b)
            /\ res' = Ok("UpdateHoot", 200, <<h>>)
    /\ Release(r)
    /\ UNCHANGED <<now, nextHootId, lastCreated>>

\* router.put("/:hootId")
UpdateHoot(u, h, b) ==
    IF Permission(u, h) # "ok" THEN Refuse("UpdateHoot", u, h)
    ELSE UpdateHootWrite(NoRequest, h, b)

UpdateHootLoad(r, u, h) ==
    /\ Free(r)
    /\ Permission(u, h) = "ok"
    /\ Suspend(r, Loaded("UpdateHoot", h))
    /\ UNCHANGED <<hoots, now, nextHootId, nextCommentId, lastCreated, res>>

UpdateHootSave(r, b) ==
    /\ pending[r].op = "UpdateHoot"
    /\ UpdateHootWrite(r, pending[r].hootId, b)

\* DELETE /:hootId from findByIdAndDelete on: 200 with the deleted
\* document, or with null when it was gone already.
DeleteHootWrite(r, h) ==
    /\ hoots' = RemoveHoot(hoots, h)
    /\ res' = Ok("DeleteHoot", 200, IF h \in DOMAIN hoots THEN <<h>> ELSE <<>>)
    /\ Release(r)
    /\ UNCHANGED <<now, nextHootId, nextCommentId, lastCreated>>

\* router.delete("/:hootId")
DeleteHoot(u, h) ==
    IF Permission(u, h) # "ok" THEN Refuse("DeleteHoot", u, h)
    ELSE DeleteHootWrite(NoRequest, h)

DeleteHootLoad(r, u, h) ==
    /\ Free(r)
    /\ Permission(u, h) = "ok"
    /\ Suspend(r, Loaded("DeleteHoot", h))
    /\ UNCHANGED <<hoots, now, nextHootId, nextCommentId, lastCreated, res>>

DeleteHootSave(r) ==
    /\ pending[r].op = "DeleteHoot"
    /\ DeleteHootWrite(r, pending[r].hootId)

\* What a comment route answers before hoot.save() writes: findById gave
\* null or comments.id() gave null (TypeError), or save() found the loaded
\* document, as the handler changed it, invalid.  "ok": the write is sent.
BeforeWrite(h, missing, changed) ==
    IF FindById(h) = <<>> \/ missing THEN "TypeError"
    ELSE IF ~ValidHoot([hoots[h] EXCEPT !.comments = changed]) THEN "ValidationError"
    ELSE "ok"

Reject(op, err) ==
    /\ res' = Fail(op, err)
    /\ UNCHANGED <<hoots, now, nextHootId, nextCommentId, lastCreated, pending>>

\* What a POST /:hootId/comments finds stored at its save when one other
\* POST /:hootId/comments has saved since its load: the comments it loaded
\* and one more.
OneAppended(stored, loaded) ==
    /\ Len(stored) = Len(loaded) + 1
    /\ SubSeq(stored, 1, Len(loaded)) = loaded

\* The comment the handler pushes: the body with author set to the caller.
NewComment(u, b) ==
    [id |-> IF b.id = NoId THEN nextCommentId ELSE b.id,
     text |-> b.text, author |-> u]

AddCommentChecked(u, h, b) ==
    BeforeWrite(h, FALSE,
                IF h \in DOMAIN hoots THEN Append(hoots[h].comments, NewComment(u, b))
                ELSE <<>>)

\* POST /:hootId/comments from the write of hoot.save() on: a $push and an
\* increment of __v; when it finds no document (the hoot is gone) save()
\* rejects with a VersionError.
AddCommentWrite(r, h, u, b, loaded) ==
    /\ nextCommentId <= MaxComments
    /\ b.id # NoId => b.id < nextCommentId
    /\ IF h \notin DOMAIN hoots
       THEN /\ res' = Fail("AddComment", "VersionError")
            /\ UNCHANGED <<hoots, nextCommentId>>
            /\ Release(r)
       ELSE /\ hoots[h].v < MaxVersion
            /\ hoots' = [hoots EXCEPT
                           ![h].comments = SavePush(@, loaded, NewComment(u, b)),
                           ![h].v = @ + 1]
            /\ nextCommentId' = nextCommentId + 1
            /\ res' = Response("AddComment", 201, "none", <<>>,
                             OneAppended(hoots[h].comments, loaded))
            /\ Release(r)
    /\ UNCHANGED <<now, nextHootId, lastCreated>>

\* router.post("/:hootId/comments")
AddComment(u, h, b) ==
    IF AddCommentChecked(u, h, b) # "ok"
    THEN Reject("AddComment", AddCommentChecked(u, h, b))
    ELSE AddCommentWrite(NoRequest, h, u, b, hoots[h].comments)

AddCommentLoad(r, h) ==
    /\ Free(r)
    /\ \E u \in Users : \E b \in CommentBodies : AddCommentChecked(u, h, b) = "ok"
    /\ Suspend(r, [Loaded("AddComment", h) EXCEPT !.loaded = hoots[h].comments])
    /\ UNCHANGED <<hoots, now, nextHootId, nextCommentId, lastCreated, res>>

AddCommentSave(r, u, b) ==
    /\ pending[r].op = "AddComment"
    /\ ValidComment(b)
    /\ AddCommentWrite(r, pending[r].hootId, u, b, pending[r].loaded)

UpdateCommentIndex(h, c) ==
    IF h \in DOMAIN hoots THEN CommentIndex(hoots[h].comments, c) ELSE 0

UpdateCommentChecked(h, c, t) ==
    BeforeWrite(h, UpdateCommentIndex(h, c) = 0,
                IF UpdateCommentIndex(h, c) = 0 THEN <<>>
                ELSE SetText(hoots[h].comments, UpdateCommentIndex(h, c), t))

\* PUT /:hootId/comments/:commentId from the write of hoot.save() on, for
\* the comment loaded at index i with text old.  A text equal to the loaded
\* one modifies nothing: save() sends no update and only looks the document
\* up by _id.  Another text is sent as a $set by index, on the document
\* with that _id and the loaded __v.
UpdateCommentWrite(r, h, i, t, v, old) ==
    /\ IF t = old
       THEN /\ res' = IF h \in DOMAIN hoots THEN Ok("UpdateComment", 200, <<>>)
                      ELSE Fail("UpdateComment", "DocumentNotFoundError")
            /\ UNCHANGED hoots
       ELSE IF h \notin DOMAIN hoots \/ hoots[h].v # v
       THEN /\ res' = Fail("UpdateComment", "VersionError")
            /\ UNCHANGED hoots
       ELSE /\ hoots' = [hoots EXCEPT ![h].comments = SetText(@, i, t)]
            /\ res' = Ok("UpdateComment", 200, <<>>)
    /\ Release(r)
    /\ UNCHANGED <<now, nextHootId, nextCommentId, lastCreated>>

\* router.put("/:hootId/comments/:commentId")
UpdateComment(h, c, t) ==
    IF UpdateCommentChecked(h, c, t) # "ok"
    THEN Reject("UpdateComment", UpdateCommentChecked(h, c, t))
    ELSE UpdateCommentWrite(NoRequest, h, UpdateCommentIndex(h, c), t, hoots[h].v,
                            hoots[h].comments[UpdateCommentIndex(h, c)].text)

UpdateCommentLoad(r, h, c) ==
    /\ Free(r)
    /\ \E t \in Texts : UpdateCommentChecked(h, c, t) = "ok"
    /\ Suspend(r, [Loaded("UpdateComment", h) EXCEPT
                      !.commentId = c,
                      !.idx = UpdateCommentIndex(h, c),
                      !.v = hoots[h].v,
                      !.text = hoots[h].comments[UpdateCommentIndex(h, c)].text])
    /\ UNCHANGED <<hoots, now, nextHootId, nextCommentId, lastCreated, res>>

\* The held request sets the text on the document it loaded; save()
\* validates that document before it writes.
UpdateCommentSave(r, t) ==
    /\ pending[r].op = "UpdateComment"
    /\ IF t \notin Texts
       THEN /\ res' = Fail("UpdateComment", "ValidationError")
            /\ Release(r)
            /\ UNCHANGED <<hoots, now, nextHootId, nextCommentId, lastCreated>>
       ELSE UpdateCommentWrite(r, pending[r].hootId, pending[r].idx, t, pending[r].v,
                               pending[r].text)

DeleteCommentChecked(h, c) ==
    BeforeWrite(h, FALSE,
                IF h \in DOMAIN hoots THEN PullComment(hoots[h].comments, c) ELSE <<>>)

\* DELETE /:hootId/comments/:commentId from the write of hoot.save() on: a
\* $pull by _id and an increment of __v; when it finds no document save()
\* rejects with a VersionError.
DeleteCommentWrite(r, h, c) ==
    /\ IF h \notin DOMAIN hoots
       THEN /\ res' = Fail("DeleteComment", "VersionError")
            /\ UNCHANGED hoots
            /\ Release(r)
       ELSE /\ hoots[h].v < MaxVersion
            /\ hoots' = [hoots EXCEPT ![h].comments = PullComment(@, c),
                                      ![h].v = @ + 1]
            /\ res' = Ok("DeleteComment", 200, <<>>)
            /\ Release(r)
    /\ UNCHANGED <<now, nextHootId, nextCommentId, lastCreated>>

\* router.delete("/:hootId/comments/:commentId")
DeleteComment(h, c) ==
    IF DeleteCommentChecked(h, c) # "ok"
    THEN Reject("DeleteComment", DeleteCommentChecked(h, c))
    ELSE DeleteCommentWrite(NoRequest, h, c)

DeleteCommentLoad(r, h, c) ==
    /\ Free(r)
    /\ DeleteCommentChecked(h, c) = "ok"
    /\ Suspend(r, [Loaded("DeleteComment", h) EXCEPT !.commentId = c])
    /\ UNCHANGED <<hoots, now, nextHootId, nextCommentId, lastCreated, res>>

DeleteCommentSave(r) ==
    /\ pending[r].op = "DeleteComment"
    /\ DeleteCommentWrite(r, pending[r].hootId, pending[r].commentId)

\* ------------------------------------------------- the specifications
\* The requests, with bodies and texts drawn from a mix m: the bodies of
\* POST /, of PUT /:hootId and of POST /:hootId/comments, the texts of
\* PUT /:hootId/comments/:commentId, and the ticks of the clock between
\* two POST /.
NextOver(m) ==
    \/ \E u \in Users : \E b \in m.create : \E dt \in m.elapsed : CreateHoot(u, b, dt)
    \/ ListHoots
    \/ \E h \in HootIds : GetHoot(h)
    \/ \E u \in Users : \E h \in HootIds : \E b \in m.update : UpdateHoot(u, h, b)
    \/ \E r \in Requests : \E u \in Users : \E h \in HootIds : UpdateHootLoad(r, u, h)
    \/ \E r \in Requests : \E b \in m.update : UpdateHootSave(r, b)
    \/ \E u \in Users : \E h \in HootIds : DeleteHoot(u, h)
    \/ \E r \in Requests : \E u \in Users : \E h \in HootIds : DeleteHootLoad(r, u, h)
    \/ \E r \in Requests : DeleteHootSave(r)
    \/ \E u \in Users : \E h \in HootIds : \E b \in m.comment : AddComment(u, h, b)
    \/ \E r \in Requests : \E h \in HootIds : AddCommentLoad(r, h)
    \/ \E r \in Requests : \E u \in Users : \E b \in m.comment : AddCommentSave(r, u, b)
    \/ \E h \in HootIds : \E c \in CommentIds : \E t \in m.text : UpdateComment(h, c, t)
    \/ \E r \in Requests : \E h \in HootIds : \E c \in CommentIds : UpdateCommentLoad(r, h, c)
    \/ \E r \in Requests : \E t \in m.text : UpdateCommentSave(r, t)
    \/ \E h \in HootIds : \E c \in CommentIds : DeleteComment(h, c)
    \/ \E r \in Requests : \E h \in HootIds : \E c \in CommentIds : DeleteCommentLoad(r, h, c)
    \/ \E r \in Requests : DeleteCommentSave(r)

\* The comment body {text: "a"}.
PlainComments == {[id |-> NoId, text |-> "a", author |-> NoId]}

\* Requests that set authors: PUT bodies that set author to another user
\* or to null, creates whose body carries a comment with an author; plain
\* comments.
AuthorMix ==
    [create |-> {PlainBody,
                 [PlainBody EXCEPT !.hasComments = TRUE,
                     !.comments = <<[id |-> NoId, text |-> "a", author |-> 1]>>]},
     update |-> {[NoBody EXCEPT !.author = w] : w \in {2, Null}},
     comment |-> PlainComments,
     text |-> {"a"},
     elapsed |-> {1}]

\* Requests that create hoots from bodies carrying more than the three
\* fields: a createdAt, an _id (that of an earlier hoot), an invalid
\* category; PUT bodies that set createdAt; two POST / within a millisecond.
CreateMix ==
    [create |-> {PlainBody, [PlainBody EXCEPT !.createdAt = PastTime],
                 [PlainBody EXCEPT !.category = BadCategory]}
                \cup {[PlainBody EXCEPT !.id = h] : h \in HootIds},
     update |-> {[NoBody EXCEPT !.createdAt = PastTime]},
     comment |-> PlainComments,
     text |-> {"a"},
     elapsed |-> {0, 1}]

\* Requests that choose the _id of a comment: comment bodies with the _id
\* of an earlier comment; PUT bodies that store an invalid category.
IdMix ==
    [create |-> {PlainBody},
     update |-> {[NoBody EXCEPT !.category = BadCategory]},
     comment |-> {b \in CommentBodies : b.text = "a" /\ b.id \in {NoId, 1}},
     text |-> {"a"},
     elapsed |-> {1}]

\* As IdMix, with PUT bodies that store a comment without text.
PullMix ==
    [IdMix EXCEPT !.update =
        {[NoBody EXCEPT !.hasComments = TRUE,
             !.comments = <<[id |-> NoId, text |-> NoStr, author |-> NoId]>>]}]

\* Requests on comments: comment bodies with and without text, comment
\* PUTs with and without text; PUT bodies that empty the comments array;
\* creates with and without a chosen _id.
CommentMix ==
    [create |-> {PlainBody} \cup {[PlainBody EXCEPT !.id = h] : h \in HootIds},
     update |-> {[NoBody EXCEPT !.hasComments = TRUE]},
     comment |-> {b \in CommentBodies : b.text # "b" /\ b.id = NoId},
     text |-> {"b", NoStr},
     elapsed |-> {1}]

\* Requests that store what the schema rejects: PUT bodies with an empty
\* title; plain creates and comments.
InvalidMix ==
    [create |-> {PlainBody},
     update |-> {[NoBody EXCEPT !.title = EmptyStr]},
     comment |-> PlainComments,
     text |-> {"a"},
     elapsed |-> {1}]

SpecAuthors == Init /\ [][NextOver(AuthorMix)]_vars
SpecCreate == Init /\ [][NextOver(CreateMix)]_vars
SpecIds == Init /\ [][NextOver(IdMix)]_vars
SpecPulls == Init /\ [][NextOver(PullMix)]_vars
SpecComments == Init /\ [][NextOver(CommentMix)]_vars
SpecInvalid == Init /\ [][NextOver(InvalidMix)]_vars

\* ---------------------------------------------------------- vocabulary
IdsOf(cs) == {cs[i].id : i \in 1..Len(cs)}

StoredCommentIds == UNION {IdsOf(hoots[h].comments) : h \in DOMAIN hoots}

\* Every hoot other than h is stored as before.
OthersUnchanged(h) ==
    /\ DOMAIN hoots' = DOMAIN hoots
    /\ \A x \in DOMAIN hoots \ {h} : hoots'[x] = hoots[x]

\* The step sends a response: it does not hold a request.
Responds == \A r \in Requests : pending[r].op # "idle" \/ pending'[r].op = "idle"

\* The step is the write and the response of that request, held or not.
AddCommentStep(u, h, b) ==
    \/ AddComment(u, h, b)
    \/ \E r \in Requests : pending[r].hootId = h /\ AddCommentSave(r, u, b)

UpdateCommentStep(h, c, t) ==
    \/ UpdateComment(h, c, t)
    \/ \E r \in Requests :
          pending[r].hootId = h /\ pending[r].commentId = c /\ UpdateCommentSave(r, t)

DeleteCommentStep(h, c) ==
    \/ DeleteComment(h, c)
    \/ \E r \in Requests :
          pending[r].hootId = h /\ pending[r].commentId = c /\ DeleteCommentSave(r)

\* ------------------------------------------------------------------ C1
\* C1: PUT /:hootId and DELETE /:hootId by a caller who is not the author
\* of the existing hoot answer 403 and leave what is stored unchanged; such
\* a request never gets as far as its write.
C1_NonAuthorForbidden ==
    [][\A u \in Users : \A h \in DOMAIN hoots :
          hoots[h].author # u =>
             /\ (DeleteHoot(u, h) \/ \E b \in AuthorMix.update : UpdateHoot(u, h, b))
                   => (res'.status = 403 /\ hoots' = hoots)
             /\ \A r \in Requests :
                   ~UpdateHootLoad(r, u, h) /\ ~DeleteHootLoad(r, u, h)]_vars

\* ------------------------------------------------------------------ C2
\* C2: the author of a stored hoot never changes: no request, PUT /:hootId
\* included, stores another author on a hoot.
C2_AuthorNeverChanges ==
    [][\A h \in DOMAIN hoots \cap DOMAIN hoots' :
          hoots'[h].author = hoots[h].author]_vars

\* ------------------------------------------------------------------ C3
\* C3: a hoot that POST / answers 201 for is stored with the caller as
\* author and with no comments, whatever the body carried.
C3_CreatedByCallerNoComments ==
    [][(Responds /\ res'.op = "CreateHoot" /\ res'.status = 201)
       => \A u \in Users : \A b \in AuthorMix.create :
             (\E dt \in AuthorMix.elapsed : CreateHoot(u, b, dt)) =>
                /\ lastCreated' \in DOMAIN hoots'
                /\ res'.ids = <<lastCreated'>>
                /\ hoots'[lastCreated'].author = u
                /\ hoots'[lastCreated'].comments = <<>>]_vars

\* ------------------------------------------------------------------ C4
\* C4: a POST /:hootId/comments answered 201 adds exactly one comment, with
\* the caller as author and an _id no stored comment has, at the end of
\* that hoot's comments, and leaves the earlier comments, their order and
\* every other hoot alone; so two such requests with the same body leave
\* two distinct comments in the order of the requests.
C4_AddCommentAppends ==
    [][(Responds /\ res'.op = "AddComment" /\ res'.status = 201)
       => /\ \E u \in Users : \E h \in HootIds : \E b \in CommentBodies :
                AddCommentStep(u, h, b)
          /\ \A u \in Users : \A h \in HootIds : \A b \in CommentBodies :
                AddCommentStep(u, h, b) =>
                   LET before == hoots[h].comments
                       after == hoots'[h].comments
                   IN /\ h \in DOMAIN hoots
                      /\ Len(after) = Len(before) + 1
                      /\ SubSeq(after, 1, Len(before)) = before
                      /\ after[Len(after)].author = u
                      /\ after[Len(after)].text = b.text
                      /\ after[Len(after)].id \notin StoredCommentIds
                      /\ hoots'[h] = [hoots[h] EXCEPT !.comments = after, !.v = @ + 1]
                      /\ OthersUnchanged(h)]_vars

\* ------------------------------------------------------------------ C5
\* C5: a DELETE /:hootId/comments/:commentId answered 200 removes exactly
\* one comment, the one with that _id, from the hoot: every other comment of
\* the hoot is kept with its text and author and in the same relative
\* order, and no other hoot changes; when no comment has that _id the
\* comments are unchanged.
C5_DeleteCommentExact ==
    [][(Responds /\ res'.op = "DeleteComment" /\ res'.status = 200)
       => /\ \E h \in HootIds : \E c \in CommentIds : DeleteCommentStep(h, c)
          /\ \A h \in HootIds : \A c \in CommentIds :
                DeleteCommentStep(h, c) =>
                   LET before == hoots[h].comments
                       after == hoots'[h].comments
                       i == CommentIndex(before, c)
                   IN /\ h \in DOMAIN hoots
                      /\ c \notin IdsOf(before) => after = before
                      /\ c \in IdsOf(before) =>
                            after = SubSeq(before, 1, i - 1)
                                       \o SubSeq(before, i + 1, Len(before))
                      /\ hoots'[h] = [hoots[h] EXCEPT !.comments = after, !.v = @ + 1]
                      /\ OthersUnchanged(h)]_vars

\* ------------------------------------------------------------------ C6
\* C6: every result of GET / lists all stored hoots from the most recently
\* created to the least recently created, so the hoot created last is the
\* first element for as long as it is stored; updates and comment
\* operations do not change the order.
C6_ListNewestFirst ==
    [][/\ \A p \in FindSorted(hoots') :
            lastCreated' \in DOMAIN hoots' => p[1] = lastCreated'
       /\ (Responds /\ res'.op \in {"UpdateHoot", "AddComment", "UpdateComment",
                                    "DeleteComment"})
            => FindSorted(hoots') = FindSorted(hoots)]_vars

\* ------------------------------------------------------------------ C7
\* C7: DELETE /:hootId by the hoot's author answers 200 and removes the hoot
\* with its comments; the _id of a removed hoot is never stored again, so
\* GET /:hootId on it returns no hoot and GET / does not list it.
C7_DeletedStaysDeleted ==
    [][/\ \A u \in Users : \A h \in DOMAIN hoots :
             (hoots[h].author = u /\ DeleteHoot(u, h))
                => (res'.status = 200 /\ res'.ids = <<h>> /\ h \notin DOMAIN hoots')
       /\ \A h \in HootIds :
             (h < nextHootId /\ h \notin DOMAIN hoots) => h \notin DOMAIN hoots'
       /\ (Responds /\ res'.op = "GetHoot")
             => \A i \in 1..Len(res'.ids) : res'.ids[i] \in DOMAIN hoots'
       /\ (Responds /\ res'.op = "ListHoots")
             => {res'.ids[i] : i \in 1..Len(res'.ids)} = DOMAIN hoots'
      ]_vars

\* ------------------------------------------------------------------ C8
\* C8: a PUT /:hootId/comments/:commentId that answers while no hoot has
\* the hoot id, or while the hoot has no comment with the comment id,
\* answers 500, never 200, and changes nothing stored.
C8_UpdateCommentNotFound ==
    [][(Responds /\ res'.op = "UpdateComment")
       => \A h \in HootIds : \A c \in CommentIds :
             (h \notin DOMAIN hoots \/ c \notin IdsOf(hoots[h].comments))
                => \A t \in Texts \cup {NoStr} :
                      UpdateCommentStep(h, c, t)
                         => (res'.status = 500 /\ hoots' = hoots)]_vars

\* ------------------------------------------------------------------ C9
\* C9: for every existing comment of an existing hoot and every text, PUT
\* on the comment answers 200 and replaces that comment's text and nothing
\* else, and DELETE on it answers 200 and removes it, whoever calls.
C9_NoCommentOwnership ==
    [][(Responds /\ res'.op \in {"UpdateComment", "DeleteComment"})
       => \A h \in DOMAIN hoots : \A c \in IdsOf(hoots[h].comments) :
             /\ \A t \in Texts :
                   UpdateComment(h, c, t) =>
                      LET before == hoots[h].comments
                          after == hoots'[h].comments
                      IN /\ res'.status = 200
                         /\ Len(after) = Len(before)
                         /\ \A i \in 1..Len(before) :
                               after[i] = IF i = CommentIndex(before, c)
                                          THEN [before[i] EXCEPT !.text = t]
                                          ELSE before[i]
                         /\ OthersUnchanged(h)
             /\ DeleteComment(h, c) =>
                   (res'.status = 200 /\ c \notin IdsOf(hoots'[h].comments))]_vars

\* ----------------------------------------------------------------- C10
\* The step is the save of request r, a POST /:hootId/comments on hoot h
\* answered 201, in the run C10 describes: since r loaded the hoot, another
\* POST /:hootId/comments has stored its comment, and nothing else about
\* the comments has changed.
RacedSave(h, r) ==
    /\ Responds /\ res'.op = "AddComment" /\ res'.status = 201
    /\ pending[r].op = "AddComment" /\ pending[r].hootId = h
    /\ pending'[r].op = "idle"
    /\ h \in DOMAIN hoots
    /\ OneAppended(hoots[h].comments, pending[r].loaded)

\* C10 as stated: two POST /:hootId/comments requests both load the hoot
\* before either saves and both answer 201, and the state reached holds only
\* one of the two new comments: the second save leaves the loaded comments
\* and one more.  (What that save stores is determined by what the request
\* loaded and what is stored when it saves, so the state the claim calls
\* reachable is reached by every such run or by none.)
C10_LostUpdate ==
    [][\A h \in HootIds : \A r \in Requests :
          RacedSave(h, r)
             => Len(hoots'[h].comments) <= Len(pending[r].loaded) + 1]_vars

\* C10 amended: when two POST /:hootId/comments requests both load the hoot
\* before either saves and both answer 201, the state reached holds both
\* new comments after the loaded ones, in the order of the saves; and
\* whatever ran between the load and the save of a POST answered 201, its
\* save keeps every comment stored at that moment and adds its own after
\* them.
C10_NoLostAppend ==
    [][(Responds /\ res'.op = "AddComment" /\ res'.status = 201)
       => \A h \in HootIds : \A r \in Requests :
             (pending[r].op = "AddComment" /\ pending[r].hootId = h
                 /\ pending'[r].op = "idle")
                => /\ h \in DOMAIN hoots
                   /\ Len(hoots'[h].comments) = Len(hoots[h].comments) + 1
                   /\ SubSeq(hoots'[h].comments, 1, Len(hoots[h].comments))
                         = hoots[h].comments
                   /\ RacedSave(h, r)
                         => /\ Len(hoots'[h].comments) = Len(pending[r].loaded) + 2
                            /\ SubSeq(hoots'[h].comments, 1, Len(pending[r].loaded))
                                  = pending[r].loaded
                   /\ OthersUnchanged(h)]_vars

\* A POST /:hootId/comments that loaded the hoot before another one saved
\* has just answered 201 in its turn, and the hoot holds the comments of
\* both, in the order of the saves.
C10_Witness ==
    /\ res.op = "AddComment" /\ res.status = 201 /\ res.raced
    /\ \E h \in DOMAIN hoots :
          /\ Len(hoots[h].comments) = 2
          /\ hoots[h].comments[1].id = 1 /\ hoots[h].comments[2].id = 2
====
